---------------------------- MODULE Spec2Model ----------------------------
(***************************************************************************)
(* Model of copyright-notice-pre-commit: the notice scanner                *)
(* (internal/scanner/scanner.go), the configuration and pattern matcher    *)
(* (internal/config/config.go) and the command-line entry point (main.go). *)
(*                                                                         *)
(* Text is modelled as TLA+ strings, character by character: Ch(s, i) is   *)
(* the i-th character of s.  A file's content is the sequence of lines     *)
(* bufio.ScanLines delimits.  A line is a record [text, pad]: the line is  *)
(* `text` followed by `pad` further filler bytes "x", so that a line       *)
(* longer than the line reader's token limit can be written down.          *)
(***************************************************************************)
EXTENDS Integers, Sequences, FiniteSets, TLC

VARIABLES
    \* the command-line run (main, runCheck, runFix, runVersion)
    args,           \* [command, files, config, company, autoFix, dryRun]
    fs,             \* the file system: path -> node
    cfg,            \* *config.Config of the run
    pc,             \* position of the run
    idx,            \* ScanFiles: index of the next path of filePaths
    results,        \* ScanFiles: results
    errors,         \* ScanFiles: errors
    scanErr,        \* ScanFiles: the returned error (number of errors, 0 = nil)
    output,         \* the report lines printed by runCheck
    missingCount,   \* runCheck
    outdatedCount,  \* runCheck
    exitCode,       \* process exit status
    \* one call of Scanner.analyzeCopyright
    content,        \* the content argument, as lines
    ftype,          \* info.Type
    info,           \* *FileInfo
    \* one call of Config.ShouldProcessFile
    filePath,       \* the filePath argument
    patterns,       \* the receiver: [FilePatterns, ExcludePatterns]
    processed,      \* the returned value
    \* which call has been made in the two function-level specifications
    called

vars == <<args, fs, cfg, pc, idx, results, errors, scanErr, output, missingCount,
          outdatedCount, exitCode, content, ftype, info, filePath, patterns,
          processed, called>>

runVars == <<args, fs, cfg, pc, idx, results, errors, scanErr, output,
             missingCount, outdatedCount, exitCode>>
scanVars == <<content, ftype, info>>
patternVars == <<filePath, patterns, processed>>

-----------------------------------------------------------------------------
(* Strings                                                                 *)

Ch(s, i) == SubSeq(s, i, i)

Digits == {"0", "1", "2", "3", "4", "5", "6", "7", "8", "9"}
UpperLetters == "ABCDEFGHIJKLMNOPQRSTUVWXYZ"
LowerLetters == "abcdefghijklmnopqrstuvwxyz"

UpperSet == {Ch(UpperLetters, k) : k \in 1..26}
LowerSet == {Ch(LowerLetters, k) : k \in 1..26}
\* unicode.ToLower on the ASCII letters
UpperToLower ==
    [c \in UpperSet |-> Ch(LowerLetters, CHOOSE k \in 1..26 : Ch(UpperLetters, k) = c)]

IsDigit(c) == c \in Digits
IsUpper(c) == c \in UpperSet
IsLower(c) == c \in LowerSet

\* unicode.IsSpace / the regexp class \s on the characters the model uses
IsSpace(c) == c \in {" ", "\t", "\r", "\n"}

\* the regexp class \w, which \b is defined by
IsWordChar(c) == IsDigit(c) \/ IsUpper(c) \/ IsLower(c) \/ c = "_"

LowerCh(c) == IF IsUpper(c) THEN UpperToLower[c] ELSE c

RECURSIVE ToLower(_)
ToLower(s) == IF s = "" THEN "" ELSE LowerCh(Head(s)) \o ToLower(Tail(s))

HasPrefix(s, p) == Len(s) >= Len(p) /\ SubSeq(s, 1, Len(p)) = p
HasSuffix(s, p) == Len(s) >= Len(p) /\ SubSeq(s, Len(s) - Len(p) + 1, Len(s)) = p
TrimPrefix(s, p) == IF HasPrefix(s, p) THEN SubSeq(s, Len(p) + 1, Len(s)) ELSE s
TrimSuffix(s, p) == IF HasSuffix(s, p) THEN SubSeq(s, 1, Len(s) - Len(p)) ELSE s

\* strings.Contains: the empty string is contained in every string
Contains(s, sub) ==
    \E i \in 1..(Len(s) - Len(sub) + 1) : SubSeq(s, i, i + Len(sub) - 1) = sub

RECURSIVE TrimLeft(_)
TrimLeft(s) == IF s # "" /\ IsSpace(Head(s)) THEN TrimLeft(Tail(s)) ELSE s
RECURSIVE TrimRight(_)
TrimRight(s) ==
    IF s # "" /\ IsSpace(Ch(s, Len(s))) THEN TrimRight(SubSeq(s, 1, Len(s) - 1)) ELSE s
TrimSpace(s) == TrimRight(TrimLeft(s))

DigitVal(c) == CHOOSE d \in 0..9 : Ch("0123456789", d + 1) = c

-----------------------------------------------------------------------------
(* scanner.go: file types                                                  *)

supportedFileTypes ==
    << [Name |-> "Go", Extensions |-> <<".go">>,
        CommentStart |-> "", CommentEnd |-> "", LineComment |-> "//"],
       [Name |-> "Python", Extensions |-> <<".py">>,
        CommentStart |-> "", CommentEnd |-> "", LineComment |-> "#"],
       [Name |-> "JavaScript/TypeScript", Extensions |-> <<".js", ".ts", ".jsx", ".tsx">>,
        CommentStart |-> "", CommentEnd |-> "", LineComment |-> "//"],
       [Name |-> "Java", Extensions |-> <<".java">>,
        CommentStart |-> "", CommentEnd |-> "", LineComment |-> "//"],
       [Name |-> "C/C++", Extensions |-> <<".c", ".cpp", ".cc", ".cxx", ".h", ".hpp">>,
        CommentStart |-> "", CommentEnd |-> "", LineComment |-> "//"],
       [Name |-> "Shell", Extensions |-> <<".sh", ".bash">>,
        CommentStart |-> "", CommentEnd |-> "", LineComment |-> "#"] >>

\* the zero FileType: the Type of a FileInfo that has none
NoFileType ==
    [Name |-> "", Extensions |-> <<>>, CommentStart |-> "", CommentEnd |-> "",
     LineComment |-> ""]

\* filepath.Ext: the suffix from the last dot of the last path element
RECURSIVE ExtFrom(_, _)
ExtFrom(path, i) ==
    IF i < 1 \/ Ch(path, i) = "/" THEN ""
    ELSE IF Ch(path, i) = "." THEN SubSeq(path, i, Len(path))
    ELSE ExtFrom(path, i - 1)
Ext(path) == ExtFrom(path, Len(path))

\* detectFileType: the index in supportedFileTypes of the first type that lists
\* the lower-cased extension, 0 for nil
detectFileType(path) ==
    LET ext == ToLower(Ext(path))
        hits == {t \in 1..Len(supportedFileTypes) :
                    \E e \in 1..Len(supportedFileTypes[t].Extensions) :
                        supportedFileTypes[t].Extensions[e] = ext}
    IN  IF hits = {} THEN 0 ELSE CHOOSE t \in hits : \A u \in hits : t <= u

-----------------------------------------------------------------------------
(* scanner.go: the two regular expressions of NewScanner                   *)

\* positions reachable from a position of P by \s*
SkipSpaces(s, P) ==
    {j \in 1..(Len(s) + 1) :
        \E p \in P : p <= j /\ \A k \in p..(j - 1) : IsSpace(Ch(s, k))}

\* positions reachable from a position of P by (\(c\))? under (?i)
OptionalC(s, P) ==
    P \cup {p + 3 : p \in {q \in P : q + 2 <= Len(s)
                                     /\ ToLower(SubSeq(s, q, q + 2)) = "(c)"}}

\* positions reachable from a position of P by (\d{4})?
OptionalYear(s, P) ==
    P \cup {p + 4 : p \in {q \in P : q + 3 <= Len(s)
                                     /\ \A k \in q..(q + 3) : IsDigit(Ch(s, k))}}

\* the end positions of the matches of copyrightRegex that start at i
copyrightMatchEnds(s, i) ==
    IF i + 8 <= Len(s) /\ ToLower(SubSeq(s, i, i + 8)) = "copyright"
    THEN OptionalYear(s, SkipSpaces(s, OptionalC(s, SkipSpaces(s, {i + 9}))))
    ELSE {}

\* copyrightRegex.MatchString: (?i)copyright\s*(\(c\))?\s*(\d{4})? matches somewhere
copyrightRegex(s) == \E i \in 1..Len(s) : copyrightMatchEnds(s, i) # {}

\* \b at p: between character p - 1 and character p
WordBoundary(s, p) ==
    (p > 1 /\ IsWordChar(Ch(s, p - 1))) # (p <= Len(s) /\ IsWordChar(Ch(s, p)))

\* yearRegex, \b(19|20)\d{2}\b, matches at i
yearMatchAt(s, i) ==
    /\ i + 3 <= Len(s)
    /\ WordBoundary(s, i)
    /\ SubSeq(s, i, i + 1) \in {"19", "20"}
    /\ IsDigit(Ch(s, i + 2)) /\ IsDigit(Ch(s, i + 3))
    /\ WordBoundary(s, i + 4)

\* yearRegex.FindAllString(s, -1): the leftmost matches, none overlapping
RECURSIVE yearRegexFrom(_, _)
yearRegexFrom(s, i) ==
    IF i + 3 > Len(s) THEN <<>>
    ELSE IF yearMatchAt(s, i) THEN <<SubSeq(s, i, i + 3)>> \o yearRegexFrom(s, i + 4)
    ELSE yearRegexFrom(s, i + 1)
yearRegex(s) == yearRegexFrom(s, 1)

\* parseInt: Sscanf("%d") reads the leading decimal digits; none leaves 0
RECURSIVE parseDigits(_, _)
parseDigits(s, acc) ==
    IF s # "" /\ IsDigit(Head(s)) THEN parseDigits(Tail(s), 10 * acc + DigitVal(Head(s)))
    ELSE acc
parseInt(s) == parseDigits(s, 0)

-----------------------------------------------------------------------------
(* scanner.go: analyzeCopyright                                            *)

\* bufio.MaxScanTokenSize, the limit of the bufio.Scanner analyzeCopyright
\* reads lines with: Scan() returns false at a line that does not fit
MaxScanTokenSize == 65536

\* the window of analyzeCopyright
WindowLines == 20

\* a line of `text` with no filler
Line(text) == [text |-> text, pad |-> 0]

LineBytes(l) == Len(l.text) + l.pad

RECURSIVE Filler(_)
Filler(n) == IF n = 0 THEN "" ELSE "x" \o Filler(n - 1)

\* scanner.Text() of a line that Scan() has delivered
LineText(l) == l.text \o Filler(l.pad)

\* scanner.Scan() delivers line n of the content: there is one, and no line up
\* to it exceeds the token limit (after such a line every Scan() returns false)
ScannerScan(lines, n) ==
    /\ n <= Len(lines)
    /\ \A k \in 1..n : LineBytes(lines[k]) < MaxScanTokenSize

removeCommentMarkers(line, fileType) ==
    LET c1 == IF fileType.LineComment # ""
              THEN TrimSpace(TrimPrefix(line, fileType.LineComment))
              ELSE line
        c2 == IF fileType.CommentStart # "" THEN TrimPrefix(c1, fileType.CommentStart)
              ELSE c1
        c3 == IF fileType.CommentEnd # "" THEN TrimSuffix(c2, fileType.CommentEnd)
              ELSE c2
    IN  TrimSpace(c3)

\* pickYear taking the first year found instead of the last
pickYear_First(years) == years[1]

\* years[len(years)-1]: the year string analyzeCopyright parses
pickYear(years) == years[Len(years)]

\* the CopyrightYear analyzeCopyright records for a matching cleaned line
extractYear(cleanLine, before) ==
    LET years == yearRegex(cleanLine)
    IN  IF Len(years) > 0 /\ parseInt(pickYear(years)) > 0
        THEN parseInt(pickYear(years))
        ELSE before

\* the loop of analyzeCopyright, lineNum lines having been read
RECURSIVE analyzeFrom(_, _, _)
analyzeFrom(lines, inf, lineNum) ==
    IF ~(ScannerScan(lines, lineNum + 1) /\ lineNum < WindowLines) THEN inf
    ELSE LET n == lineNum + 1
             line == TrimSpace(LineText(lines[n]))
             cleanLine == removeCommentMarkers(line, inf.Type)
         IN  IF line = "" THEN analyzeFrom(lines, inf, n)
             ELSE IF copyrightRegex(cleanLine)
                  THEN [inf EXCEPT !.HasCopyright = TRUE,
                                   !.CopyrightNotice = line,
                                   !.LineNumber = n,
                                   !.CopyrightYear = extractYear(cleanLine, @)]
                  ELSE analyzeFrom(lines, inf, n)

analyzeCopyright(lines, inf) == analyzeFrom(lines, inf, 0)

\* &FileInfo{Path: filePath, Type: *fileType} of ScanFile
NewFileInfo(path, fileType) ==
    [Path |-> path, Type |-> fileType, HasCopyright |-> FALSE, CopyrightYear |-> 0,
     CopyrightNotice |-> "", LineNumber |-> 0]

\* time.Now().Year()
CurrentYear == 2025

\* IsOutdated without its test of CopyrightYear == 0
IsOutdated_ZeroYearCounts(inf) == inf.HasCopyright /\ inf.CopyrightYear < CurrentYear

IsOutdated(inf) ==
    IF ~inf.HasCopyright \/ inf.CopyrightYear = 0 THEN FALSE
    ELSE inf.CopyrightYear < CurrentYear

NeedsUpdate(inf) == ~inf.HasCopyright \/ IsOutdated(inf)

-----------------------------------------------------------------------------
(* config.go: Config, ShouldProcessFile                                    *)

DefaultConfig ==
    [CompanyName |-> "Your Company",
     NoticeFormat |-> "Copyright (C) $year $company_name. All rights reserved.",
     AutoFix |-> FALSE,
     FilePatterns |-> <<"*.go", "*.py", "*.js", "*.ts", "*.java", "*.cpp", "*.c", "*.h">>,
     ExcludePatterns |-> <<"vendor/", "node_modules/", ".git/", "*.pb.go", "*_generated.go">>]

\* filepath.Match(pattern, name) for patterns of literal characters, * and ?
\* (the patterns of the model hold no character class and no escape): the whole
\* name must match; * matches any run of non-separator characters, ? one
RECURSIVE Match(_, _)
Match(pattern, name) ==
    IF pattern = "" THEN name = ""
    ELSE IF Head(pattern) = "*"
         THEN \E k \in 0..Len(name) :
                 /\ \A j \in 1..k : Ch(name, j) # "/"
                 /\ Match(Tail(pattern), SubSeq(name, k + 1, Len(name)))
         ELSE /\ name # ""
              /\ IF Head(pattern) = "?" THEN Head(name) # "/" ELSE Head(name) = Head(pattern)
              /\ Match(Tail(pattern), Tail(name))

\* filepath.Base: the last element of the path, trailing separators removed
RECURSIVE StripSlashes(_)
StripSlashes(path) ==
    IF Len(path) > 0 /\ Ch(path, Len(path)) = "/"
    THEN StripSlashes(SubSeq(path, 1, Len(path) - 1))
    ELSE path
RECURSIVE LastElement(_, _)
LastElement(path, i) ==
    IF i < 1 \/ Ch(path, i) = "/" THEN SubSeq(path, i + 1, Len(path))
    ELSE LastElement(path, i - 1)
Base(path) ==
    IF path = "" THEN "."
    ELSE IF StripSlashes(path) = "" THEN "/"
    ELSE LastElement(StripSlashes(path), Len(StripSlashes(path)))

\* excludeMatches with raw containment kept for directory-style patterns only
excludeMatches_DirectoryOnly(pattern, path) ==
    \/ Match(pattern, path)
    \/ HasSuffix(pattern, "/") /\ Contains(path, TrimSuffix(pattern, "/"))

\* the two tests of ShouldProcessFile's exclude loop on one pattern: a glob match
\* of the whole path, or the pattern (one trailing "/" removed) occurring in it
excludeMatches(pattern, path) ==
    \/ Match(pattern, path)
    \/ Contains(path, TrimSuffix(pattern, "/"))

\* the include loop of ShouldProcessFile, from pattern k
RECURSIVE includeLoop(_, _, _)
includeLoop(c, path, k) ==
    IF k > Len(c.FilePatterns) THEN FALSE
    ELSE IF Match(c.FilePatterns[k], Base(path)) THEN TRUE
    ELSE includeLoop(c, path, k + 1)

\* the exclude loop of ShouldProcessFile, from pattern k
RECURSIVE excludeLoop(_, _, _)
excludeLoop(c, path, k) ==
    IF k > Len(c.ExcludePatterns) THEN FALSE
    ELSE IF excludeMatches(c.ExcludePatterns[k], path) THEN TRUE
    ELSE excludeLoop(c, path, k + 1)

\* ShouldProcessFile with the include patterns consulted first
ShouldProcessFile_IncludeFirst(c, path) ==
    IF includeLoop(c, path, 1) THEN TRUE
    ELSE IF excludeLoop(c, path, 1) THEN FALSE
    ELSE FALSE

ShouldProcessFile(c, path) ==
    IF excludeLoop(c, path, 1) THEN FALSE
    ELSE IF includeLoop(c, path, 1) THEN TRUE
    ELSE FALSE

-----------------------------------------------------------------------------
(* config.go: LoadConfig, OverrideFromFlags                                *)

\* A node of the file system: a regular file (readable or not, with its content
\* as lines, and whether that content is a well-formed YAML mapping) or a
\* directory (with the entries filepath.Walk visits below it, in its order).
FileNode(lines) ==
    [kind |-> "file", readable |-> TRUE, content |-> lines, yamlOK |-> FALSE, walk |-> <<>>]
UnreadableNode ==
    [kind |-> "file", readable |-> FALSE, content |-> <<>>, yamlOK |-> FALSE, walk |-> <<>>]
YamlNode(ok) ==
    [kind |-> "file", readable |-> TRUE, content |-> <<>>, yamlOK |-> ok, walk |-> <<>>]
DirNode(entries) ==
    [kind |-> "dir", readable |-> TRUE, content |-> <<>>, yamlOK |-> FALSE, walk |-> entries]

\* os.Stat(path) succeeds
Exists(disk, path) == path \in DOMAIN disk
\* os.Stat(path) succeeds and stat.IsDir()
IsDir(disk, path) == Exists(disk, path) /\ disk[path].kind = "dir"
\* os.ReadFile(path) succeeds
ReadFileOK(disk, path) ==
    Exists(disk, path) /\ disk[path].kind = "file" /\ disk[path].readable

\* the keys the well-formed configuration file of the model sets
CustomYaml ==
    [CompanyName |-> "Acme Inc", FilePatterns |-> <<"*.go">>, ExcludePatterns |-> <<"test">>]

findConfigFile(disk) ==
    LET candidates == <<".copyright.yaml", ".copyright.yml", "copyright.yaml", "copyright.yml">>
        found == {k \in 1..Len(candidates) : Exists(disk, candidates[k])}
    IN  IF found = {} THEN ""
        ELSE candidates[CHOOSE k \in found : \A j \in found : k <= j]

\* loadFromFile: [err, config]
loadFromFile(config, disk, path) ==
    IF ~ReadFileOK(disk, path) \/ ~disk[path].yamlOK
    THEN [err |-> TRUE, config |-> config]
    ELSE [err |-> FALSE,
          config |-> [config EXCEPT !.CompanyName = CustomYaml.CompanyName,
                                    !.FilePatterns = CustomYaml.FilePatterns,
                                    !.ExcludePatterns = CustomYaml.ExcludePatterns]]

\* LoadConfig: [err, config]
LoadConfig(disk, configPath) ==
    LET path == IF configPath = "" THEN findConfigFile(disk) ELSE configPath
    IN  IF path # "" THEN loadFromFile(DefaultConfig, disk, path)
        ELSE [err |-> FALSE, config |-> DefaultConfig]

OverrideFromFlags(c, company, format, autoFix) ==
    [c EXCEPT !.CompanyName = IF company # "" THEN company ELSE @,
              !.NoticeFormat = IF format # "" THEN format ELSE @,
              !.AutoFix = IF autoFix THEN autoFix ELSE @]

-----------------------------------------------------------------------------
(* scanner.go: ScanFile, scanDirectory, ScanFiles                          *)

\* ScanFile: [err, info]; err is "" for nil
ScanFile(disk, path) ==
    LET t == detectFileType(path)
    IN  IF t = 0 THEN [err |-> "unsupported file type", info |-> NewFileInfo(path, NoFileType)]
        ELSE IF ~ReadFileOK(disk, path)
        THEN [err |-> "failed to read file", info |-> NewFileInfo(path, NoFileType)]
        ELSE [err |-> "",
              info |-> analyzeCopyright(disk[path].content,
                                        NewFileInfo(path, supportedFileTypes[t]))]

\* An entry filepath.Walk visits: a file, a directory, or a path whose visit
\* fails (the callback receives err # nil).  The entries under the root carry
\* their own nodes.
WalkFile(path, node) == [path |-> path, kind |-> "file", node |-> node]
WalkDir(path) == [path |-> path, kind |-> "dir", node |-> DirNode(<<>>)]
WalkError(path) == [path |-> path, kind |-> "err", node |-> UnreadableNode]

\* scanDirectory: the walk from entry k on; [err, results]
RECURSIVE walkFrom(_, _, _)
walkFrom(entries, k, found) ==
    IF k > Len(entries) THEN [err |-> "", results |-> found]
    ELSE LET e == entries[k]
         IN  IF e.kind = "err" THEN [err |-> "walk failed", results |-> found]
             ELSE IF e.kind = "dir" THEN walkFrom(entries, k + 1, found)
             ELSE IF detectFileType(e.path) # 0
                  THEN LET r == ScanFile((e.path :> e.node), e.path)
                       IN  IF r.err # "" THEN walkFrom(entries, k + 1, found)
                           ELSE walkFrom(entries, k + 1, Append(found, r.info))
                  ELSE walkFrom(entries, k + 1, found)

scanDirectory(disk, dirPath) == walkFrom(disk[dirPath].walk, 1, <<>>)

\* ScanFiles leaving its loop at the first error
continueAfterError_Return(i, n) == n + 1

\* `continue` after errors = append(errors, err): the loop goes on with the
\* next of the n paths
continueAfterError(i, n) == i + 1

\* the exit status of runCheck when only missing notices count
exitStatus_MissingOnly(missing, outdated) == IF missing > 0 THEN 1 ELSE 0

\* the exit status runCheck ends with after its report
exitStatus(missing, outdated) == IF missing > 0 \/ outdated > 0 THEN 1 ELSE 0

-----------------------------------------------------------------------------
(* Values of the variables a specification does not use                    *)

NoArgs ==
    [command |-> "", files |-> <<>>, config |-> "", company |-> "",
     autoFix |-> FALSE, dryRun |-> FALSE]
NoConfig ==
    [CompanyName |-> "", NoticeFormat |-> "", AutoFix |-> FALSE,
     FilePatterns |-> <<>>, ExcludePatterns |-> <<>>]

IdleRun ==
    /\ args = NoArgs /\ fs = <<>> /\ cfg = NoConfig /\ pc = "idle" /\ idx = 0
    /\ results = <<>> /\ errors = <<>> /\ scanErr = 0 /\ output = <<>>
    /\ missingCount = 0 /\ outdatedCount = 0 /\ exitCode = 0
IdleScan ==
    /\ content = <<>> /\ ftype = NoFileType /\ info = NewFileInfo("", NoFileType)
IdlePattern ==
    /\ filePath = "" /\ patterns = NoConfig /\ processed = FALSE

-----------------------------------------------------------------------------
(* Spec: one run of the command line (main.go)                             *)

\* the largest number of file arguments
MaxFiles == 3

\* the sequences over S of length at most n
SeqsUpTo(S, n) == UNION {[1..k -> S] : k \in 0..n}

MissingContent == <<Line("package main"), Line(""), Line("func main() {}")>>
OutdatedContent == <<Line("// Copyright 2022 Acme Inc"), Line("package main")>>
CurrentContent ==
    <<Line("// Copyright (C) 2025 Acme Inc. All rights reserved."), Line("package main")>>
NoYearContent == <<Line(""), Line("// Copyright Acme Inc"), Line("package main")>>
ReadmeContent == <<Line("# Copyright Notice Pre-commit")>>

MainNodes ==
    {FileNode(c) : c \in {MissingContent, OutdatedContent, CurrentContent, NoYearContent}}
    \cup {UnreadableNode}

\* what filepath.Walk visits under src, in lexical order
SrcWalks ==
    {<<WalkFile("src/a.py", FileNode(<<Line("# Copyright 2022 Acme Inc")>>)),
       WalkFile("src/b.js", FileNode(<<Line("/* Copyright (c) 2019-2026 Acme Inc */")>>)),
       WalkFile("src/notes.txt", FileNode(<<Line("Copyright 2020")>>))>>,
     <<WalkFile("src/a.py", UnreadableNode),
       WalkDir("src/lib"),
       WalkFile("src/lib/b.sh", FileNode(<<Line("#!/bin/sh"), Line("echo hi")>>))>>,
     <<WalkFile("src/a.py", FileNode(<<Line("# Copyright 2025 Acme Inc")>>)),
       WalkError("src/locked"),
       WalkFile("src/z.go", FileNode(MissingContent))>>}

Disk(mainNode, srcWalk, withConfig) ==
    ("main.go" :> mainNode)
    @@ ("vendor/pkg/x.go" :> FileNode(MissingContent))
    @@ ("README.md" :> FileNode(ReadmeContent))
    @@ ("src" :> DirNode(srcWalk))
    @@ ("broken.yaml" :> YamlNode(FALSE))
    @@ (IF withConfig THEN (".copyright.yaml" :> YamlNode(TRUE)) ELSE <<>>)

Disks == {Disk(m, w, c) : m \in MainNodes, w \in SrcWalks, c \in BOOLEAN}

\* the paths given on the command line
RunPaths == {"main.go", "vendor/pkg/x.go", "README.md", "src"}

\* os.Args[1:] with the flags parsed: the command, the file arguments and the
\* flags.  The flags are well formed (flag.ExitOnError is not met); --verbose
\* only adds debug lines to the output and is left out.
RunArgs ==
    {[command |-> "check", files |-> f, config |-> c, company |-> n,
      autoFix |-> FALSE, dryRun |-> FALSE] :
        f \in SeqsUpTo(RunPaths, MaxFiles), c \in {"", "broken.yaml"}, n \in {"", "Acme Inc"}}
    \cup
    {[command |-> "fix", files |-> f, config |-> "", company |-> "Acme Inc",
      autoFix |-> a, dryRun |-> d] :
        f \in SeqsUpTo(RunPaths, MaxFiles), a \in BOOLEAN, d \in BOOLEAN}
    \cup
    {[NoArgs EXCEPT !.command = c] : c \in {"", "version", "help"}}

Init ==
    /\ IdleScan /\ IdlePattern
    /\ called = FALSE
    /\ args \in RunArgs
    /\ fs \in Disks
    /\ cfg = NoConfig
    /\ pc = "main"
    /\ idx = 0 /\ results = <<>> /\ errors = <<>> /\ scanErr = 0
    /\ output = <<>> /\ missingCount = 0 /\ outdatedCount = 0
    /\ exitCode = 0

\* os.Exit(code), or main returning (code 0)
Exit(code) == pc' = "exited" /\ exitCode' = code

\* main: no command and an unknown command show the usage and exit 1
Main ==
    /\ pc = "main"
    /\ IF args.command = "check" THEN pc' = "runCheck" /\ exitCode' = exitCode
       ELSE IF args.command = "fix" THEN pc' = "runFix" /\ exitCode' = exitCode
       ELSE IF args.command = "version" THEN pc' = "runVersion" /\ exitCode' = exitCode
       ELSE Exit(1)
    /\ output' = IF args.command \in {"check", "fix", "version"} THEN output
                 ELSE Append(output, [line |-> "Usage", path |-> "", n |-> 0])
    /\ UNCHANGED <<args, fs, cfg, idx, results, errors, scanErr, missingCount,
                   outdatedCount, scanVars, patternVars, called>>

\* runCheck up to the call of ScanFiles: the arguments, the configuration
RunCheckLoad ==
    /\ pc = "runCheck"
    /\ LET loaded == LoadConfig(fs, args.config)
       IN  IF Len(args.files) = 0
           THEN /\ Exit(1)
                /\ output' = Append(output, [line |-> "No files specified", path |-> "", n |-> 0])
                /\ UNCHANGED <<cfg, idx>>
           ELSE IF loaded.err
           THEN /\ Exit(1)
                /\ output' = Append(output, [line |-> "Error loading config", path |-> "", n |-> 0])
                /\ UNCHANGED <<cfg, idx>>
           ELSE /\ cfg' = OverrideFromFlags(loaded.config, args.company, "", FALSE)
                /\ pc' = "ScanFiles"
                /\ idx' = 1
                /\ UNCHANGED <<output, exitCode>>
    /\ UNCHANGED <<args, fs, results, errors, scanErr, missingCount, outdatedCount,
                   scanVars, patternVars, called>>

\* one iteration of the loop of ScanFiles, on filePaths[idx]
ScanFilesPath ==
    /\ pc = "ScanFiles"
    /\ idx <= Len(args.files)
    /\ LET path == args.files[idx]
           dir == scanDirectory(fs, path)
           file == ScanFile(fs, path)
       IN  IF IsDir(fs, path)
           THEN IF dir.err # ""
                THEN /\ errors' = Append(errors, [path |-> path, err |-> dir.err])
                     /\ idx' = continueAfterError(idx, Len(args.files))
                     /\ UNCHANGED results
                ELSE /\ results' = results \o dir.results
                     /\ idx' = idx + 1
                     /\ UNCHANGED errors
           ELSE IF file.err # ""
                THEN /\ errors' = Append(errors, [path |-> path, err |-> file.err])
                     /\ idx' = continueAfterError(idx, Len(args.files))
                     /\ UNCHANGED results
                ELSE /\ results' = Append(results, file.info)
                     /\ idx' = idx + 1
                     /\ UNCHANGED errors
    /\ UNCHANGED <<args, fs, cfg, pc, scanErr, output, missingCount, outdatedCount,
                   exitCode, scanVars, patternVars, called>>

\* ScanFiles returns: the results, and one error counting the errors (0: nil);
\* runCheck prints that error
ScanFilesReturn ==
    /\ pc = "ScanFiles"
    /\ idx > Len(args.files)
    /\ scanErr' = Len(errors)
    /\ output' = IF Len(errors) > 0
                 THEN Append(output, [line |-> "Error scanning files", path |-> "",
                                      n |-> Len(errors)])
                 ELSE output
    /\ pc' = "report"
    /\ UNCHANGED <<args, fs, cfg, idx, results, errors, missingCount, outdatedCount,
                   exitCode, scanVars, patternVars, called>>

\* the line runCheck prints for one result
reportLine(result) ==
    IF ~result.HasCopyright THEN [line |-> "MISSING", path |-> result.Path, n |-> 0]
    ELSE IF IsOutdated(result)
    THEN [line |-> "OUTDATED", path |-> result.Path, n |-> result.CopyrightYear]
    ELSE [line |-> "OK", path |-> result.Path, n |-> 0]

\* the report loop of runCheck, the summary line, and the exit status
RunCheckReport ==
    /\ pc = "report"
    /\ LET lines == [k \in 1..Len(results) |-> reportLine(results[k])]
           missing == Cardinality({k \in 1..Len(results) : lines[k].line = "MISSING"})
           outdated == Cardinality({k \in 1..Len(results) : lines[k].line = "OUTDATED"})
       IN  /\ missingCount' = missing
           /\ outdatedCount' = outdated
           /\ output' = output \o lines
                        \o <<[line |-> "Scanned", path |-> "", n |-> Len(results)]>>
           /\ Exit(exitStatus(missing, outdated))
    /\ UNCHANGED <<args, fs, cfg, idx, results, errors, scanErr, scanVars,
                   patternVars, called>>

\* runFix: prints its flags and files and "Fix functionality not yet implemented"
RunFix ==
    /\ pc = "runFix"
    /\ output' = Append(output, [line |-> "Fix functionality not yet implemented",
                                 path |-> "", n |-> Len(args.files)])
    /\ Exit(0)
    /\ UNCHANGED <<args, fs, cfg, idx, results, errors, scanErr, missingCount,
                   outdatedCount, scanVars, patternVars, called>>

RunVersion ==
    /\ pc = "runVersion"
    /\ output' = Append(output, [line |-> "copyright-cli version 0.1.0", path |-> "", n |-> 0])
    /\ Exit(0)
    /\ UNCHANGED <<args, fs, cfg, idx, results, errors, scanErr, missingCount,
                   outdatedCount, scanVars, patternVars, called>>

Next ==
    \/ Main
    \/ RunCheckLoad
    \/ ScanFilesPath
    \/ ScanFilesReturn
    \/ RunCheckReport
    \/ RunFix
    \/ RunVersion

Spec == Init /\ [][Next]_vars

-----------------------------------------------------------------------------
(* Claims about a run of the command line (Spec)                           *)

\* a check run that has returned from ScanFiles
Scanned == args.command = "check" /\ pc \in {"report", "exited"} /\ idx > 0

\* C1: a check run whose results hold a file without a notice or with an
\* outdated one (missingCount > 0 or outdatedCount > 0) ends with a non-zero
\* exit status.
C1_NonCompliantExitsNonZero ==
    (/\ pc = "exited" /\ args.command = "check"
     /\ \/ missingCount > 0 \/ outdatedCount > 0
        \/ \E k \in 1..Len(results) : ~results[k].HasCopyright \/ IsOutdated(results[k]))
    => exitCode # 0

\* C1 witness: a check run that found outdated notices only, and exited 1
C1_Witness ==
    /\ pc = "exited" /\ args.command = "check"
    /\ missingCount = 0 /\ outdatedCount > 0
    /\ exitCode = 1

\* the company name the run is configured with
ConfiguredCompany ==
    OverrideFromFlags(LoadConfig(fs, args.config).config, args.company, "", FALSE).CompanyName

\* C2 (as claimed): fix --auto-fix, not a dry run, adds a missing notice.  Every
\* supported file argument whose scan gave HasCopyright = FALSE scans, once the
\* command has run, with HasCopyright = TRUE, CopyrightYear the current year and
\* a notice holding the configured company name.
C2_FixAddsMissingNotice ==
    [][(pc = "runFix" /\ pc' = "exited" /\ args.autoFix /\ ~args.dryRun) =>
          \A i \in 1..Len(args.files) :
              (/\ ScanFile(fs, args.files[i]).err = ""
               /\ ~ScanFile(fs, args.files[i]).info.HasCopyright)
              => /\ ScanFile(fs', args.files[i]).err = ""
                 /\ ScanFile(fs', args.files[i]).info.HasCopyright
                 /\ ScanFile(fs', args.files[i]).info.CopyrightYear = CurrentYear
                 /\ Contains(ScanFile(fs', args.files[i]).info.CopyrightNotice,
                             ConfiguredCompany)]_vars

\* input path p is a regular file, or names none, and has no supported extension
IsUnsupportedFile(p) == ~IsDir(fs, p) /\ detectFileType(p) = 0

\* C8 (as claimed): a path of the input list with an unsupported extension is
\* left out of the results and is no error: no result and no error of the
\* batch scan is on its account.
C8_UnsupportedTypeIsNotAnError ==
    Scanned =>
        \A i \in 1..Len(args.files) :
            IsUnsupportedFile(args.files[i]) =>
                /\ \A k \in 1..Len(results) : results[k].Path # args.files[i]
                /\ \A k \in 1..Len(errors) : errors[k].path # args.files[i]

\* the scan of input path p fails: a directory whose walk fails, or a file that
\* is not of a supported type or cannot be read
InputFails(p) ==
    IF IsDir(fs, p) THEN \E k \in 1..Len(fs[p].walk) : fs[p].walk[k].kind = "err"
    ELSE detectFileType(p) = 0 \/ ~ReadFileOK(fs, p)

\* the read of input path p fails
ReadFails(p) ==
    IF IsDir(fs, p) THEN \E k \in 1..Len(fs[p].walk) : fs[p].walk[k].kind = "err"
    ELSE detectFileType(p) # 0 /\ ~ReadFileOK(fs, p)

\* the files a directory walk yields results for: the supported, readable ones
WalkedPaths(entries) ==
    LET keep == SelectSeq(entries,
                    LAMBDA e : e.kind = "file" /\ detectFileType(e.path) # 0 /\ e.node.readable)
    IN  [k \in 1..Len(keep) |-> keep[k].path]

\* the paths results are due for, in input order, given the input paths
RECURSIVE DuePaths(_)
DuePaths(paths) ==
    IF paths = <<>> THEN <<>>
    ELSE (IF InputFails(Head(paths)) THEN <<>>
          ELSE IF IsDir(fs, Head(paths)) THEN WalkedPaths(fs[Head(paths)].walk)
          ELSE <<Head(paths)>>)
         \o DuePaths(Tail(paths))

FailedCount(paths) == Cardinality({i \in 1..Len(paths) : InputFails(paths[i])})

ResultPaths == [k \in 1..Len(results) |-> results[k].Path]

\* C9: a failing path never aborts the batch.  While ScanFiles loops, the paths
\* done so far have each given their results, in input order, or one recorded
\* error, and no error has been returned; when ScanFiles has returned, every
\* input path has been processed, every path that did not fail has its results,
\* in input order, and the failures are returned as one error that counts them.
C9_FailuresDoNotAbortTheBatch ==
    /\ pc = "ScanFiles" =>
          /\ idx \in 1..(Len(args.files) + 1)
          /\ scanErr = 0
          /\ ResultPaths = DuePaths(SubSeq(args.files, 1, idx - 1))
          /\ Len(errors) = FailedCount(SubSeq(args.files, 1, idx - 1))
    /\ Scanned =>
          /\ idx = Len(args.files) + 1
          /\ ResultPaths = DuePaths(args.files)
          /\ scanErr = FailedCount(args.files)
          /\ (\E i \in 1..Len(args.files) : ReadFails(args.files[i])) => scanErr > 0

\* C9 witness: ScanFiles has returned; the read of the first path failed, a
\* later path was scanned and has its result, and the error counts the failure
C9_Witness ==
    /\ Scanned
    /\ Len(args.files) >= 2 /\ ReadFails(args.files[1])
    /\ \E i \in 2..Len(args.files) :
          /\ ~InputFails(args.files[i]) /\ ~IsDir(fs, args.files[i])
          /\ \E k \in 1..Len(results) : results[k].Path = args.files[i]
    /\ scanErr >= 1

\* C10 (as claimed): pattern filtering precedes detection.  Every file a check
\* run scanned and reports has passed ShouldProcessFile under the run's
\* configuration.
C10_OnlyFilteredFilesAreScanned ==
    Scanned => \A k \in 1..Len(results) : ShouldProcessFile(cfg, results[k].Path)

\* the derived predicates of a scan result, as the classification states them
isOutdated(r) == r.HasCopyright /\ r.CopyrightYear > 0 /\ r.CopyrightYear < CurrentYear
needsRepair(r) == ~r.HasCopyright \/ isOutdated(r)

\* the class of a scan result, and the report line of that class
ClassOf(r) ==
    IF ~r.HasCopyright THEN "MISSING" ELSE IF isOutdated(r) THEN "OUTDATED" ELSE "OK"
ClassLine(r) ==
    [line |-> ClassOf(r), path |-> r.Path,
     n |-> IF ClassOf(r) = "OUTDATED" THEN r.CopyrightYear ELSE 0]

\* the per-file lines of the report printed so far
ReportLines == SelectSeq(output, LAMBDA o : o.line \in {"MISSING", "OUTDATED", "OK"})

\* C11: classification of a scanned file.  For every result of the scan,
\* IsOutdated holds exactly when the file has a notice whose year is above 0 and
\* below the current year, and NeedsUpdate holds exactly when the file has no
\* notice or is outdated.  When the check run has ended, the report holds one
\* line for each result, in order: MISSING for a file with no notice, OUTDATED
\* with the year for a stale year, OK otherwise, so that a notice with no year
\* or with a year not below the current year is OK; and the counts of the
\* summary are the numbers of MISSING and OUTDATED lines.
C11_EachFileInOneClass ==
    /\ \A k \in 1..Len(results) :
          /\ IsOutdated(results[k]) <=> isOutdated(results[k])
          /\ NeedsUpdate(results[k]) <=> needsRepair(results[k])
    /\ (Scanned /\ pc = "exited") =>
          /\ Len(ReportLines) = Len(results)
          /\ \A k \in 1..Len(results) :
                /\ ReportLines[k] = ClassLine(results[k])
                /\ (/\ results[k].HasCopyright
                    /\ \/ results[k].CopyrightYear = 0
                       \/ results[k].CopyrightYear >= CurrentYear)
                   => ReportLines[k].line = "OK"
          /\ missingCount = Cardinality({k \in 1..Len(results) : ~results[k].HasCopyright})
          /\ outdatedCount = Cardinality({k \in 1..Len(results) : isOutdated(results[k])})
          /\ output[Len(output)] = [line |-> "Scanned", path |-> "", n |-> Len(results)]

\* C11 witness: a check run has ended whose report holds a MISSING line, an
\* OUTDATED line, an OK line for a notice with no year and an OK line for a
\* notice whose year is above the current year
C11_Witness ==
    /\ Scanned /\ pc = "exited"
    /\ Len(ReportLines) = Len(results)
    /\ \E k \in 1..Len(results) : ReportLines[k].line = "MISSING"
    /\ \E k \in 1..Len(results) :
          ReportLines[k].line = "OUTDATED" /\ ReportLines[k].n = 2022
    /\ \E k \in 1..Len(results) :
          /\ results[k].HasCopyright /\ results[k].CopyrightYear = 0
          /\ ReportLines[k].line = "OK"
    /\ \E k \in 1..Len(results) :
          /\ results[k].HasCopyright /\ results[k].CopyrightYear > CurrentYear
          /\ ReportLines[k].line = "OK"

-----------------------------------------------------------------------------
(* SpecScan: one call of analyzeCopyright on a bounded family of contents  *)

\* the largest number of lines before the notice line
MaxPre == 21

\* lines that fill the top of a file: no notice, not blank
FillerLines == {Line("a := 1"), Line("y = 1999")}

\* lines placed once among the filler lines
OddLines ==
    {Line(""), Line("  \t"),
     Line("// noncopyrightable content"),
     [text |-> "var blob = ", pad |-> MaxScanTokenSize]}

NoticeLines ==
    {Line("// Copyright 1999 Acme, updated 2021"),
     Line("# Copyright (C) 2023 Company"),
     Line("/* Copyright 2022 */"),
     Line("  // copyright Acme Inc"),
     Line("// COPYRIGHT Acme 2024_rc v2020 20211"),
     Line("// Copyright 2019-2025 Acme")}

\* a notice further down, after the first one
LaterLine == Line("// Copyright 2030 Later")

\* pre filler lines f, the one at position oddPos (if any) replaced by odd
TopLines(pre, f, oddPos, odd) ==
    [k \in 1..pre |-> IF k = oddPos THEN odd ELSE f]

ScanInputs ==
    {TopLines(pre, f, 0, f) \o tail :
        pre \in 0..MaxPre, f \in FillerLines,
        tail \in {<<>>} \cup {<<n, LaterLine>> : n \in NoticeLines}}
    \cup
    UNION {{TopLines(pre, Line("a := 1"), oddPos, odd) \o <<n>> :
                oddPos \in {1, pre}, odd \in OddLines, n \in NoticeLines} :
            pre \in 1..MaxPre}

InitScan ==
    /\ IdleRun /\ IdlePattern
    /\ called = FALSE
    /\ content \in ScanInputs
    /\ \E t \in 1..Len(supportedFileTypes) : ftype = supportedFileTypes[t]
    /\ info = NewFileInfo("file", ftype)

\* s.analyzeCopyright(string(content), info), as ScanFile calls it
AnalyzeCopyright ==
    /\ ~called
    /\ called' = TRUE
    /\ info' = analyzeCopyright(content, info)
    /\ UNCHANGED <<content, ftype, runVars, patternVars>>

NextScan == AnalyzeCopyright

SpecScan == InitScan /\ [][NextScan]_vars

-----------------------------------------------------------------------------
(* Claims about analyzeCopyright (SpecScan)                                *)

\* what the file holds on line l as analyzeCopyright would clean it: the filler
\* bytes of a padded line are "x", which are not blank and take part in no match
CleanedLine(l, fileType) ==
    removeCommentMarkers(TrimSpace(l.text \o (IF l.pad > 0 THEN "x" ELSE "")), fileType)
IsBlankLine(l) == l.pad = 0 /\ TrimSpace(l.text) = ""
LineMatches(l, fileType) == ~IsBlankLine(l) /\ copyrightRegex(CleanedLine(l, fileType))

\* C3 (as claimed): the scan window is exactly the first 20 lines.  With 20
\* leading lines that are not blank and do not match, a notice on line 21 gives
\* HasCopyright = FALSE; with 19 such lines, the notice on line 20 gives
\* HasCopyright = TRUE.
C3_WindowIsFirst20Lines ==
    called =>
        /\ (/\ Len(content) >= WindowLines + 1
            /\ \A k \in 1..WindowLines :
                  ~IsBlankLine(content[k]) /\ ~LineMatches(content[k], ftype)
            /\ LineMatches(content[WindowLines + 1], ftype))
           => ~info.HasCopyright
        /\ (/\ Len(content) >= WindowLines
            /\ \A k \in 1..(WindowLines - 1) :
                  ~IsBlankLine(content[k]) /\ ~LineMatches(content[k], ftype)
            /\ LineMatches(content[WindowLines], ftype))
           => info.HasCopyright

\* The window of C3 for contents whose lines all fit the line reader's token
\* limit: line 20 is found, line 21 is not.
WindowWithinTokenLimit ==
    (called /\ \A k \in 1..Len(content) : LineBytes(content[k]) < MaxScanTokenSize)
    => C3_WindowIsFirst20Lines

\* "copyright" occurs in s as a whole word, in any letter case
HasWholeWordCopyright(s) ==
    \E i \in 1..(Len(s) - 8) :
        /\ ToLower(SubSeq(s, i, i + 8)) = "copyright"
        /\ WordBoundary(s, i) /\ WordBoundary(s, i + 9)

\* C4 (as claimed): a file in whose window no line holds "copyright" as a whole
\* word (only, if at all, inside a longer word) is not given HasCopyright = TRUE,
\* for every supported file type and every position of the line.
C4_WholeWordOnly ==
    (called /\ \A k \in 1..Len(content) :
                  k <= WindowLines => ~HasWholeWordCopyright(CleanedLine(content[k], ftype)))
    => ~info.HasCopyright

\* a token: a maximal run of word characters (letters, digits, underscore)
IsToken(s, i, j) ==
    /\ 1 <= i /\ i <= j /\ j <= Len(s)
    /\ \A k \in i..j : IsWordChar(Ch(s, k))
    /\ (i = 1 \/ ~IsWordChar(Ch(s, i - 1)))
    /\ (j = Len(s) \/ ~IsWordChar(Ch(s, j + 1)))

\* where the 4-digit tokens of s that begin with 19 or 20 start
YearTokenStarts(s) ==
    {i \in 1..(Len(s) - 3) :
        /\ IsToken(s, i, i + 3)
        /\ \A k \in i..(i + 3) : IsDigit(Ch(s, k))
        /\ (Ch(s, i) = "1" /\ Ch(s, i + 1) = "9") \/ (Ch(s, i) = "2" /\ Ch(s, i + 1) = "0")}

\* the value of the last such token, 0 without one
LastYearToken(s) ==
    IF YearTokenStarts(s) = {} THEN 0
    ELSE LET i == CHOOSE a \in YearTokenStarts(s) : \A b \in YearTokenStarts(s) : b <= a
         IN  1000 * DigitVal(Ch(s, i)) + 100 * DigitVal(Ch(s, i + 1))
             + 10 * DigitVal(Ch(s, i + 2)) + DigitVal(Ch(s, i + 3))

-----------------------------------------------------------------------------
(* SpecPattern: one call of ShouldProcessFile on bounded pattern sets      *)

\* the largest number of exclude patterns, and of include patterns
MaxExclude == 2
MaxInclude == 2

ExcludePool == {"vendor/", "*.pb.go", "test", "src/*.go", "*_generated.go"}
IncludePool == {"*.go", "*.py", "main.??"}

PathPool ==
    {"main.go", "vendor/pkg/x.go", "pkg/x.pb.go", "x.pb.go", "src/latest.go",
     "src/util.py", "myvendor.go", "api_generated.go", "docs/README.md", "tests/run.sh"}

InitPattern ==
    /\ IdleRun /\ IdleScan
    /\ called = FALSE
    /\ filePath \in PathPool
    /\ \/ patterns = DefaultConfig
       \/ \E ex \in SeqsUpTo(ExcludePool, MaxExclude), inc \in SeqsUpTo(IncludePool, MaxInclude) :
             patterns = [DefaultConfig EXCEPT !.ExcludePatterns = ex, !.FilePatterns = inc]
    /\ processed = FALSE

\* c.ShouldProcessFile(filePath)
CallShouldProcessFile ==
    /\ ~called
    /\ called' = TRUE
    /\ processed' = ShouldProcessFile(patterns, filePath)
    /\ UNCHANGED <<filePath, patterns, runVars, scanVars>>

NextPattern == CallShouldProcessFile

SpecPattern == InitPattern /\ [][NextPattern]_vars

-----------------------------------------------------------------------------
(* Claims about ShouldProcessFile (SpecPattern)                            *)

\* the path glob-matches exclude pattern k
ExcludeGlobHit(k) == Match(patterns.ExcludePatterns[k], filePath)
\* the path holds the text of exclude pattern k, one trailing "/" removed
ExcludeTextHit(k) == Contains(filePath, TrimSuffix(patterns.ExcludePatterns[k], "/"))
\* exclude pattern k is directory-style
IsDirectoryStyle(k) == HasSuffix(patterns.ExcludePatterns[k], "/")
\* some include glob matches the final component of the path
IncludeHit == \E k \in 1..Len(patterns.FilePatterns) : Match(patterns.FilePatterns[k], Base(filePath))

\* C6: exclude wins over include.  A path that matches any exclude pattern (by
\* glob on the path, or by holding the pattern's text) is not processed, however
\* many include globs it matches.
C6_ExcludeWinsOverInclude ==
    (called /\ \E k \in 1..Len(patterns.ExcludePatterns) : ExcludeGlobHit(k) \/ ExcludeTextHit(k))
    => processed = FALSE

\* C6 witness: vendor/pkg/x.go with include "*.go" and exclude "vendor/" is
\* excluded although an include glob matches it
C6_Witness ==
    /\ called /\ filePath = "vendor/pkg/x.go"
    /\ patterns.FilePatterns = <<"*.go">> /\ patterns.ExcludePatterns = <<"vendor/">>
    /\ IncludeHit
    /\ processed = FALSE

\* C7 (as claimed): raw containment excludes only by directory-style patterns.
\* A path that matches an include glob by its final component, glob-matches no
\* exclude pattern and holds the text of no directory-style exclude pattern is
\* processed.
C7_ContainmentForDirectoryStyleOnly ==
    (/\ called /\ IncludeHit
     /\ \A k \in 1..Len(patterns.ExcludePatterns) :
           ~ExcludeGlobHit(k) /\ ~(IsDirectoryStyle(k) /\ ExcludeTextHit(k)))
    => processed = TRUE

\* C7 (amended): raw containment excludes by every exclude pattern, one trailing
\* separator removed.  A path that holds the text of any exclude pattern is not
\* processed; a path that matches an include glob by its final component,
\* glob-matches no exclude pattern and holds the text of no exclude pattern is
\* processed.
C7_ContainmentForEveryPattern ==
    called =>
        /\ (\E k \in 1..Len(patterns.ExcludePatterns) : ExcludeTextHit(k)) => processed = FALSE
        /\ (/\ IncludeHit
            /\ \A k \in 1..Len(patterns.ExcludePatterns) :
                  ~ExcludeGlobHit(k) /\ ~ExcludeTextHit(k))
           => processed = TRUE

\* C7 witness: src/latest.go is excluded by the pattern "test", which is not
\* directory-style and does not glob-match it, while an include glob matches
C7_Witness ==
    /\ called /\ filePath = "src/latest.go"
    /\ patterns.ExcludePatterns = <<"test">> /\ IncludeHit
    /\ ~ExcludeGlobHit(1) /\ ~IsDirectoryStyle(1)
    /\ processed = FALSE

=============================================================================
